---- MODULE Spec2Model ----
(***************************************************************************)
(* Model of audio_duration_node.py: the module import (optional backends), *)
(* GetAudioDuration.get_duration (duration of a file, backend cascade) and  *)
(* GetAudioDurationFromAudio.get_duration (duration of an in-memory audio   *)
(* value of unknown shape).                                                 *)
(*                                                                          *)
(* Python values are records with a "kind" field.  Texts are sequences of   *)
(* string parts (an f-string's literal pieces and its interpolated values), *)
(* so that "the text contains the path" can be stated.  The source's        *)
(* Chinese literals are written in ASCII: the parser accepts no others.     *)
(***************************************************************************)
EXTENDS Integers, Sequences, FiniteSets, TLC

\* ------------------------------------------------------------------ bounds

\* Longest last axis of a sample buffer, and of a decoded file.
MaxLen == 2
\* Largest sample rate; rates range over 0 .. MaxRate.
MaxRate == 2

\* ------------------------------------------------------------ Python values

Tensor(shape) == [kind |-> "Tensor", shape |-> shape]
NdArray(shape) == [kind |-> "ndarray", shape |-> shape]
PyInt(v) == [kind |-> "int", v |-> v]
PyStr(s) == [kind |-> "str", s |-> s]
PyTuple(items) == [kind |-> "tuple", items |-> items]
\* A dict keeps insertion order: items is a sequence of <<key, value>>.
PyDict(items) == [kind |-> "dict", items |-> items]
\* Any object with none of the interfaces the code probes for.
Opaque == [kind |-> "object"]

IsDict(x) == x.kind = "dict"
IsStr(x) == x.kind = "str"
\* isinstance(x, torch.Tensor) or isinstance(x, np.ndarray)
IsBuffer(x) == x.kind \in {"Tensor", "ndarray"}

Keys(d) == [i \in 1..Len(d.items) |-> d.items[i][1]]
\* key in audio
Has(d, k) == \E i \in 1..Len(d.items) : d.items[i][1] = k
\* audio[key]
Get(d, k) == d.items[CHOOSE i \in 1..Len(d.items) : d.items[i][1] = k][2]

\* f"{type(audio)}"
TypeRepr(x) ==
  CASE x.kind = "Tensor" -> "<class 'torch.Tensor'>"
    [] x.kind = "ndarray" -> "<class 'numpy.ndarray'>"
    [] OTHER -> "<class '" \o x.kind \o "'>"

\* ------------------------------------------------- outcomes of a code block

\* A block either returns (seconds, text) or raises an exception with a
\* message.  route names the statements the result came through, outermost
\* first (the last one computed it); attempts lists the decoding backends
\* tried, in order, each with whether it succeeded: both are observations of
\* the run, not part of the returned tuple.
Ret(seconds, text, via, attempts) ==
  [exc |-> FALSE, seconds |-> seconds, text |-> text, route |-> <<via>>,
   attempts |-> attempts]
Raise(msg, attempts) ==
  [exc |-> TRUE, seconds |-> 0, text |-> msg, route |-> <<"raise">>,
   attempts |-> attempts]

\* "错误: " (src line 76, 212)
ErrorPrefix == "error: "
\* " 秒" (src line 49 and the like)
SecondsSuffix == " sec"

\* f"{duration_seconds} 秒"
DurationText(seconds) == <<ToString(seconds), SecondsSuffix>>

\* TruncDiv with round() in place of int().
TruncDiv_Round(n, r) ==
  IF r > 0 THEN (2 * n + r) \div (2 * r) ELSE -((2 * n - r) \div (-2 * r))

\* int(n / rate) for an int n >= 0: true division, then truncation toward
\* zero.
TruncDiv(n, r) == IF r > 0 THEN n \div r ELSE -(n \div (-r))

\* duration_seconds = int(n / sample_rate); return (duration_seconds, text)
\* with sample_rate any Python value: a zero rate raises ZeroDivisionError,
\* a rate that is no number raises TypeError.
DivReturn(n, rate, via, attempts) ==
  IF rate.kind # "int"
    THEN Raise(<<"unsupported operand type(s) for /: 'int' and '",
                 rate.kind, "'">>, attempts)
    ELSE IF rate.v = 0
      THEN Raise(<<"division by zero">>, attempts)
      ELSE Ret(TruncDiv(n, rate.v), DurationText(TruncDiv(n, rate.v)), via,
               attempts)

\* samples.size(-1), samples.shape[-1]: IndexError on a 0-d buffer.
SizeReturn(buf, rate, via, attempts) ==
  IF Len(buf.shape) = 0
    THEN Raise(<<"Dimension specified as -1 but tensor has no dimensions">>,
               attempts)
    ELSE DivReturn(buf.shape[Len(buf.shape)], rate, via, attempts)

\* ErrorResult without the except clause: the exception leaves the handler.
ErrorResult_NoExcept(r) == r

\* except Exception as e: return (0, "错误: " + str(e))
ErrorResult(r) ==
  IF r.exc
    THEN Ret(0, <<ErrorPrefix>> \o r.text, "except", r.attempts)
    ELSE r

\* ------------------------------------------------------------- environment

Backends == <<"torchaudio", "librosa", "soundfile">>
BackendSet == {Backends[i] : i \in 1..Len(Backends)}

\* The one audio file the file system may hold.
FileName == "a.wav"
\* The paths handed to the handlers: the default "", the file, another name.
Paths == {"", FileName, "b.wav"}

\* What the file holds (frames at a rate), and which backends can decode it.
Clips == {[frames |-> MaxLen, rate |-> 1], [frames |-> 1, rate |-> MaxRate]}
NoFile == [exists |-> FALSE, clip |-> [frames |-> 0, rate |-> 1],
           decodable |-> {}]
FileStates ==
  {NoFile} \cup
  {[exists |-> TRUE, clip |-> c, decodable |-> s] :
     c \in Clips, s \in SUBSET BackendSet}

VARIABLES
  installed,  \* the packages installed in the interpreter's environment
  fs,         \* the state of the file FileName
  phase,      \* "start", "import_error", "idle" or "returned"
  librosa,    \* module global librosa is not None
  sf,         \* module global sf is not None
  call,       \* the handler invoked last and its argument
  result      \* what it returned, or the exception that left it

vars == <<installed, fs, phase, librosa, sf, call, result>>

\* os.path.exists(audio_file)
os_path_exists(file, path) == path = FileName /\ file.exists

\* ---------------------------------------- GetAudioDuration.get_duration

\* One backend's load call on the path: whether it returns.
TryBackend(file, path, b) == os_path_exists(file, path) /\ b \in file.decodable

\* Cascade with the soundfile block placed before the librosa block.
RECURSIVE Cascade_SoundfileFirst(_, _, _, _, _)
Cascade_SoundfileFirst(file, path, avail, i, attempts) ==
  LET order == <<"torchaudio", "soundfile", "librosa">> IN
  IF i > Len(order)
    THEN Raise(<<"cannot load audio file: ", path>>, attempts)
    ELSE IF order[i] \notin avail
      THEN Cascade_SoundfileFirst(file, path, avail, i + 1, attempts)
      ELSE IF TryBackend(file, path, order[i])
        THEN DivReturn(file.clip.frames, PyInt(file.clip.rate), order[i],
                       Append(attempts, <<order[i], TRUE>>))
        ELSE Cascade_SoundfileFirst(file, path, avail, i + 1,
                                    Append(attempts, <<order[i], FALSE>>))

\* The cascade of lines 45-72 from backend number i on; avail is the set of
\* backends whose module global is bound.
RECURSIVE Cascade(_, _, _, _, _)
Cascade(file, path, avail, i, attempts) ==
  IF i > Len(Backends)
    THEN Raise(<<"cannot load audio file: ", path>>, attempts)
    ELSE IF Backends[i] \notin avail
      THEN Cascade(file, path, avail, i + 1, attempts)
      ELSE IF TryBackend(file, path, Backends[i])
        THEN DivReturn(file.clip.frames, PyInt(file.clip.rate), Backends[i],
                       Append(attempts, <<Backends[i], TRUE>>))
        ELSE Cascade(file, path, avail, i + 1,
                     Append(attempts, <<Backends[i], FALSE>>))

\* PathBody without the existence check of lines 42-43.
PathBody_NoExistsCheck(file, avail, path) ==
  Cascade(file, path, avail, 1, <<>>)

\* The body of the outer try block, lines 41-72.
PathBody(file, avail, path) ==
  IF ~os_path_exists(file, path)
    THEN Raise(<<"file not found: ", path>>, <<>>)
    ELSE Cascade(file, path, avail, 1, <<>>)

GetAudioDuration_get_duration(file, avail, path) ==
  ErrorResult(PathBody(file, avail, path))

\* ----------------------------- GetAudioDurationFromAudio.get_duration

\* Line 123, and the inner lists of lines 126-141.
possible_keys == <<"samplerate", "rate", "sr", "audio_data", "waveform">>
rate_branch_keys == {"samplerate", "rate", "sr"}
data_keys == <<"data", "samples", "audio", "waveform">>
rate_keys == <<"samplerate", "rate", "sr", "sample_rate">>
\* Line 192.
fallback_rate_keys == <<"sample_rate", "samplerate", "rate", "sr">>
\* Line 191.
DefaultSampleRate == 44100

\* A loop that ended without returning.
NoMatch == [exc |-> FALSE, seconds |-> 0, text |-> <<>>, route |-> <<>>,
            attempts |-> <<>>]
Through(step, r) == [r EXCEPT !.route = <<step>> \o r.route]

\* ScanData with the data keys probed in the opposite order.
RECURSIVE ScanData_Reversed(_, _, _)
ScanData_Reversed(audio, sample_rate, j) ==
  LET k == Len(data_keys) + 1 - j IN
  IF j > Len(data_keys) THEN NoMatch
  ELSE IF Has(audio, data_keys[k]) /\ IsBuffer(Get(audio, data_keys[k]))
    THEN SizeReturn(Get(audio, data_keys[k]), sample_rate, "key_scan", <<>>)
    ELSE ScanData_Reversed(audio, sample_rate, j + 1)

\* Lines 129-137: for data_key in [...]: the first data key whose value is a
\* buffer returns (or raises); NoMatch when the loop ends.
RECURSIVE ScanData(_, _, _)
ScanData(audio, sample_rate, j) ==
  IF j > Len(data_keys) THEN NoMatch
  ELSE IF Has(audio, data_keys[j]) /\ IsBuffer(Get(audio, data_keys[j]))
    THEN SizeReturn(Get(audio, data_keys[j]), sample_rate, "key_scan", <<>>)
    ELSE ScanData(audio, sample_rate, j + 1)

\* Lines 141-149: for rate_key in [...]: with data a buffer the first rate
\* key present returns (or raises); with data no buffer nothing does.
RECURSIVE ScanRate(_, _, _)
ScanRate(audio, data, j) ==
  IF j > Len(rate_keys) THEN NoMatch
  ELSE IF Has(audio, rate_keys[j]) /\ IsBuffer(data)
    THEN SizeReturn(data, Get(audio, rate_keys[j]), "key_scan", <<>>)
    ELSE ScanRate(audio, data, j + 1)

\* Lines 124-149: for key in possible_keys.
RECURSIVE ScanKeys(_, _)
ScanKeys(audio, i) ==
  IF i > Len(possible_keys) THEN NoMatch
  ELSE IF ~Has(audio, possible_keys[i]) THEN ScanKeys(audio, i + 1)
  ELSE LET key == possible_keys[i]
           r == IF key \in rate_branch_keys
                  THEN ScanData(audio, Get(audio, key), 1)
                  ELSE ScanRate(audio, Get(audio, key), 1)
       IN IF r.route = <<>> THEN ScanKeys(audio, i + 1) ELSE r

\* librosa.get_duration(y=audio_np, sr=sample_rate): float(y.shape[-1]) / sr,
\* then int() of it.
LibrosaDuration(shape, sample_rate, attempts) ==
  SizeReturn([shape |-> shape], sample_rate, "fallback", attempts)

\* Lines 180-188: the first buffer among the dict's values; audio.items()
\* raises AttributeError on anything but a dict.
RECURSIVE FirstBuffer(_, _)
FirstBuffer(audio, i) ==
  IF i > Len(audio.items) THEN Opaque
  ELSE IF IsBuffer(audio.items[i][2]) THEN audio.items[i][2]
  ELSE FirstBuffer(audio, i + 1)

\* Lines 191-195 on a dict.
RECURSIVE FallbackRate(_, _)
FallbackRate(audio, i) ==
  IF i > Len(fallback_rate_keys) THEN PyInt(DefaultSampleRate)
  ELSE IF Has(audio, fallback_rate_keys[i])
    THEN Get(audio, fallback_rate_keys[i])
    ELSE FallbackRate(audio, i + 1)

\* Lines 197-203: keep the first channel of a multi-dimensional buffer, then
\* the duration.  Indexing [0] an axis of length 0 raises IndexError.
ChannelDuration(audio_np, sample_rate, attempts) ==
  IF Len(audio_np.shape) > 1
    THEN IF audio_np.shape[1] = 0
      THEN Raise(<<"index 0 is out of bounds for axis 0 with size 0">>,
                 attempts)
      ELSE LibrosaDuration(Tail(audio_np.shape), sample_rate, attempts)
    ELSE LibrosaDuration(audio_np.shape, sample_rate, attempts)

\* The try block of lines 173-203.
LibrosaBody(audio, attempts) ==
  CASE audio.kind = "Tensor" ->
         \* key in audio: Tensor.__contains__ raises RuntimeError on a str
         Raise(<<"Tensor.__contains__ only supports Tensor or scalar">>,
               attempts)
    [] audio.kind = "ndarray" ->
         \* key in audio: no element of a numeric array equals a str
         ChannelDuration(audio, PyInt(DefaultSampleRate), attempts)
    [] audio.kind = "dict" ->
         IF IsBuffer(FirstBuffer(audio, 1))
           THEN ChannelDuration(FirstBuffer(audio, 1), FallbackRate(audio, 1),
                                attempts)
           ELSE Raise(<<"cannot convert audio to a numpy array">>, attempts)
    [] OTHER ->
         Raise(<<"'", audio.kind, "' object has no attribute 'items'">>,
               attempts)

\* str(audio)[:50]
StrOf(x) ==
  CASE x.kind = "str" -> x.s
    [] x.kind = "int" -> ToString(x.v)
    [] OTHER -> "<" \o x.kind \o ">"

\* Line 208: the ValueError naming the type and the keys (or str(audio)).
Unparsed(audio, attempts) ==
  Raise(<<"cannot parse audio format: ", TypeRepr(audio), ", content: ">>
          \o (IF IsDict(audio) THEN Keys(audio) ELSE <<StrOf(audio)>>),
        attempts)

\* Fallback without the try of line 172: the librosa block's exception
\* reaches the handler's except clause.
Fallback_NoTry(audio, lib, attempts) ==
  IF lib THEN LibrosaBody(audio, attempts) ELSE Unparsed(audio, attempts)

\* Lines 170-208: the librosa fallback, whose failure is logged and not
\* raised, then the ValueError.
Fallback(audio, lib, attempts) ==
  IF lib /\ ~LibrosaBody(audio, attempts).exc
    THEN LibrosaBody(audio, attempts)
    ELSE Unparsed(audio, attempts)

RECURSIVE GetAudioDurationFromAudio_get_duration(_, _, _, _)
\* Lines 152-168: for k, v in audio.items(), from item i on; attempts are
\* those of the recursive calls made so far.
RECURSIVE ScanItems(_, _, _, _, _, _)

\* ScanItems without the test result[0] > 0 of line 155.
ScanItems_NoCheck(file, avail, lib, audio, i, attempts) ==
  IF i > Len(audio.items) THEN Fallback(audio, lib, attempts)
  ELSE LET v == audio.items[i][2] IN
    IF IsDict(v)
      THEN LET sub == GetAudioDurationFromAudio_get_duration(file, avail,
                                                             lib, v)
           IN Through("nested",
                      [sub EXCEPT !.attempts = attempts \o sub.attempts])
    ELSE IF v.kind = "tuple" /\ Len(v.items) = 2 /\ IsBuffer(v.items[1])
      THEN LET r == SizeReturn(v.items[1], v.items[2], "tuple_scan", attempts)
           IN IF r.exc
                THEN ScanItems(file, avail, lib, audio, i + 1, attempts)
                ELSE r
    ELSE ScanItems(file, avail, lib, audio, i + 1, attempts)

ScanItems(file, avail, lib, audio, i, attempts) ==
  IF i > Len(audio.items) THEN Fallback(audio, lib, attempts)
  ELSE LET v == audio.items[i][2] IN
    IF IsDict(v)
      THEN LET sub == GetAudioDurationFromAudio_get_duration(file, avail,
                                                             lib, v)
               r == Through("nested",
                            [sub EXCEPT !.attempts = attempts \o sub.attempts])
           IN IF r.seconds > 0
                THEN r
                ELSE ScanItems(file, avail, lib, audio, i + 1, r.attempts)
    ELSE IF v.kind = "tuple" /\ Len(v.items) = 2 /\ IsBuffer(v.items[1])
      THEN LET r == SizeReturn(v.items[1], v.items[2], "tuple_scan", attempts)
           IN IF r.exc
                THEN ScanItems(file, avail, lib, audio, i + 1, attempts)
                ELSE r
    ELSE ScanItems(file, avail, lib, audio, i + 1, attempts)

\* DictRest with the filename step placed before the audio step.
DictRest_FilenameFirst(file, avail, lib, audio) ==
  IF Has(audio, "filename") /\ IsStr(Get(audio, "filename"))
    THEN Through("filename",
                 GetAudioDuration_get_duration(file, avail,
                                               Get(audio, "filename").s))
  ELSE IF Has(audio, "audio")
    THEN Through("audio",
                 GetAudioDurationFromAudio_get_duration(file, avail, lib,
                                                        Get(audio, "audio")))
  ELSE IF ScanKeys(audio, 1).route # <<>>
    THEN ScanKeys(audio, 1)
  ELSE ScanItems(file, avail, lib, audio, 1, <<>>)

\* DictRest with the file's result kept only when its seconds are positive,
\* as line 155 does for a nested mapping.
DictRest_FilenameIfPositive(file, avail, lib, audio) ==
  LET byfile == GetAudioDuration_get_duration(file, avail,
                                              Get(audio, "filename").s)
  IN
  IF Has(audio, "audio")
    THEN Through("audio",
                 GetAudioDurationFromAudio_get_duration(file, avail, lib,
                                                        Get(audio, "audio")))
  ELSE IF /\ Has(audio, "filename")
          /\ IsStr(Get(audio, "filename"))
          /\ byfile.seconds > 0
    THEN Through("filename", byfile)
  ELSE IF ScanKeys(audio, 1).route # <<>>
    THEN ScanKeys(audio, 1)
  ELSE ScanItems(file, avail, lib, audio, 1, <<>>)

\* Lines 101-208 for a dict, after the direct pair.
DictRest(file, avail, lib, audio) ==
  IF Has(audio, "audio")
    THEN Through("audio",
                 GetAudioDurationFromAudio_get_duration(file, avail, lib,
                                                        Get(audio, "audio")))
  ELSE IF Has(audio, "filename") /\ IsStr(Get(audio, "filename"))
    THEN Through("filename",
                 GetAudioDuration_get_duration(file, avail,
                                               Get(audio, "filename").s))
  ELSE IF ScanKeys(audio, 1).route # <<>>
    THEN ScanKeys(audio, 1)
  ELSE ScanItems(file, avail, lib, audio, 1, <<>>)

\* The body of the outer try block, lines 97-208.
AudioBody(file, avail, lib, audio) ==
  IF IsDict(audio)
    THEN IF /\ Has(audio, "samples")
            /\ Has(audio, "sample_rate")
            /\ IsBuffer(Get(audio, "samples"))
           THEN SizeReturn(Get(audio, "samples"), Get(audio, "sample_rate"),
                           "direct", <<>>)
           ELSE DictRest(file, avail, lib, audio)
    ELSE Fallback(audio, lib, <<>>)

GetAudioDurationFromAudio_get_duration(file, avail, lib, audio) ==
  ErrorResult(AudioBody(file, avail, lib, audio))

\* ------------------------------------------------------------------ inputs

Lengths == 0..MaxLen
Rates == 0..MaxRate

\* Sample buffers: 1-d tensors of every length, the shortest and the longest
\* as arrays, and a (channels, samples) tensor.
Buffers ==
  {Tensor(<<n>>) : n \in Lengths} \cup {NdArray(<<n>>) : n \in {0, MaxLen}}
    \cup {Tensor(<<1, MaxLen>>)}
Tuples ==
  {PyTuple(<<Tensor(<<n>>), PyInt(r)>>) : n \in {0, MaxLen}, r \in Rates}
    \cup {PyTuple(<<Opaque, PyInt(1)>>)}

DataKeyNames == {"samples", "data", "waveform", "audio_data"}
RateKeyNames == {"sample_rate", "samplerate", "rate", "sr"}

\* The entries a flat dict is made of.
LeafSlots ==
  {<<k, v>> : k \in DataKeyNames, v \in Buffers \cup {Opaque}}
    \cup {<<k, PyInt(r)>> : k \in RateKeyNames, r \in Rates}
    \cup {<<"filename", PyStr(p)>> : p \in Paths}
    \cup {<<"filename", Opaque>>, <<"audio", Opaque>>,
          <<"audio", Tensor(<<MaxLen>>)>>, <<"meta", Opaque>>,
          <<"extra", Opaque>>}
    \cup {<<"meta", t>> : t \in Tuples}

\* The same with one or two values a key, in a fixed order.
SmallSlotSeq ==
  <<<<"samples", Tensor(<<MaxLen>>)>>, <<"samples", Tensor(<<0>>)>>,
    <<"data", Tensor(<<MaxLen>>)>>, <<"waveform", Tensor(<<MaxLen>>)>>,
    <<"audio_data", Tensor(<<MaxLen>>)>>,
    <<"sample_rate", PyInt(MaxRate)>>, <<"sample_rate", PyInt(0)>>,
    <<"samplerate", PyInt(MaxRate)>>, <<"rate", PyInt(MaxRate)>>,
    <<"sr", PyInt(1)>>, <<"filename", PyStr(FileName)>>,
    <<"audio", Opaque>>, <<"meta", Opaque>>, <<"extra", Opaque>>,
    <<"extra", PyTuple(<<Tensor(<<MaxLen>>), PyInt(1)>>)>>>>
SmallSlots == {SmallSlotSeq[i] : i \in 1..Len(SmallSlotSeq)}

\* Dicts of up to two, and of three, entries with distinct keys.
DictsUpTo2(slots) ==
  {PyDict(<<>>)} \cup {PyDict(<<a>>) : a \in slots}
    \cup {PyDict(<<p[1], p[2]>>) :
            p \in {q \in slots \X slots : q[1][1] # q[2][1]}}
\* Dicts of three entries with distinct keys, in the order of slotseq.
DictsOf3(slotseq) ==
  LET I == 1..Len(slotseq) IN
  {PyDict(<<slotseq[p[1]], slotseq[p[2]], slotseq[p[3]]>>) :
     p \in {q \in I \X I \X I :
              /\ q[1] < q[2] /\ q[2] < q[3]
              /\ slotseq[q[1]][1] # slotseq[q[2]][1]
              /\ slotseq[q[2]][1] # slotseq[q[3]][1]}}

FlatDicts == DictsUpTo2(LeafSlots) \cup DictsOf3(SmallSlotSeq)
InnerDicts == DictsUpTo2(SmallSlots)
\* A dict under the audio key or an unknown key, a one-entry dict beside
\* another entry, and two dicts under unknown keys.
NestedDicts ==
  {PyDict(<<<<k, x>>>>) : k \in {"audio", "meta"}, x \in InnerDicts}
    \cup {PyDict(<<<<"meta", x>>, a>>) :
            x \in {PyDict(<<b>>) : b \in SmallSlots}, a \in SmallSlots}
    \cup {PyDict(<<<<"meta", x>>, <<"extra", y>>>>) :
            x \in {PyDict(<<a>>) : a \in SmallSlots},
            y \in {PyDict(<<a>>) : a \in SmallSlots}}

AudioInputs ==
  FlatDicts \cup NestedDicts \cup Buffers \cup Tuples
    \cup {Opaque, PyStr(FileName), PyInt(1)}

\* ------------------------------------------------------------ state machine

NoCall == [node |-> "none", arg |-> Opaque]

Init ==
  /\ installed \in SUBSET BackendSet
  /\ fs \in FileStates
  /\ phase = "start"
  /\ librosa = FALSE
  /\ sf = FALSE
  /\ call = NoCall
  /\ result = NoMatch

\* Lines 1-20: import torchaudio is unguarded, an ImportError there leaves
\* the module unloaded; librosa and soundfile are bound to None when absent.
ImportModule ==
  /\ phase = "start"
  /\ phase' = IF "torchaudio" \in installed THEN "idle" ELSE "import_error"
  /\ librosa' = ("torchaudio" \in installed /\ "librosa" \in installed)
  /\ sf' = ("torchaudio" \in installed /\ "soundfile" \in installed)
  /\ UNCHANGED <<installed, fs, call, result>>

\* Avail without the "is not None" guards of lines 54 and 63.
Avail_Unguarded == BackendSet

\* The backends whose name is bound to a module.
Avail ==
  {"torchaudio"} \cup (IF librosa THEN {"librosa"} ELSE {})
    \cup (IF sf THEN {"soundfile"} ELSE {})

\* The host runs the node GetAudioDuration on a STRING input.
CallGetAudioDuration ==
  /\ phase = "idle"
  /\ \E p \in Paths :
       /\ call' = [node |-> "GetAudioDuration", arg |-> PyStr(p)]
       /\ result' = GetAudioDuration_get_duration(fs, Avail, p)
  /\ phase' = "returned"
  /\ UNCHANGED <<installed, fs, librosa, sf>>

\* The host runs the node GetAudioDurationFromAudio on an AUDIO input.
CallGetAudioDurationFromAudio ==
  /\ phase = "idle"
  /\ \E a \in AudioInputs :
       /\ call' = [node |-> "GetAudioDurationFromAudio", arg |-> a]
       /\ result' = GetAudioDurationFromAudio_get_duration(fs, Avail,
                                                           librosa, a)
  /\ phase' = "returned"
  /\ UNCHANGED <<installed, fs, librosa, sf>>

\* The host takes the outputs; the node keeps no state between runs.
Return ==
  /\ phase = "returned"
  /\ phase' = "idle"
  /\ call' = NoCall
  /\ result' = NoMatch
  /\ UNCHANGED <<installed, fs, librosa, sf>>

Next ==
  \/ ImportModule
  \/ CallGetAudioDuration
  \/ CallGetAudioDurationFromAudio
  \/ Return

Spec == Init /\ [][Next]_vars

\* ------------------------------------------------------------------ claims

Returned == phase = "returned"
PathCall == Returned /\ call.node = "GetAudioDuration"
AudioCall == Returned /\ call.node = "GetAudioDurationFromAudio"

\* (0, "错误: " + message)
IsError(r) == r.seconds = 0 /\ Len(r.text) >= 2 /\ r.text[1] = ErrorPrefix
\* (seconds, f"{seconds} 秒")
IsDuration(r) == r.text = <<ToString(r.seconds), SecondsSuffix>>
Contains(text, part) == \E i \in 1..Len(text) : text[i] = part
SameTuple(r, q) == r.seconds = q.seconds /\ r.text = q.text

\* The backends installed that can decode the file at the called path.
Decoders ==
  IF call.arg.s = FileName /\ fs.exists
    THEN fs.decodable \cap installed
    ELSE {}
BackendIndex(b) == CHOOSE i \in 1..Len(Backends) : Backends[i] = b

\* samples / sample_rate held directly, samples a buffer
IsDirectPair(a) ==
  /\ IsDict(a)
  /\ Has(a, "samples")
  /\ Has(a, "sample_rate")
  /\ Get(a, "samples").kind \in {"Tensor", "ndarray"}
LastAxis(buf) == buf.shape[Len(buf.shape)]

\* The calls in which a step of the handler fails: a missing file, a file no
\* installed backend decodes, a zero sample rate, an input that is no
\* mapping and no array, a nested value that is neither.
FailingCall ==
  \/ PathCall /\ Decoders = {}
  \/ AudioCall /\ IsDirectPair(call.arg)
       /\ Get(call.arg, "sample_rate") = PyInt(0)
  \/ AudioCall /\ call.arg.kind \in {"object", "str", "int", "tuple"}
  \/ AudioCall /\ IsDict(call.arg) /\ ~IsDirectPair(call.arg)
       /\ Has(call.arg, "audio") /\ Get(call.arg, "audio") = Opaque

\* C1: both handlers always return a 2-tuple and let no exception out: the
\* result is (seconds, "<seconds> sec") or (0, "error: " + message), and it
\* is the latter whenever a step of the handler fails.
C1_NoExceptionEscapes ==
  Returned =>
    /\ ~result.exc
    /\ result.seconds \in Int
    /\ IsError(result) \/ IsDuration(result)
    /\ FailingCall => IsError(result)

\* A zero sample rate in the direct pair: the ZeroDivisionError is returned
\* as the error tuple.
C1_Witness ==
  /\ AudioCall
  /\ IsDirectPair(call.arg)
  /\ Get(call.arg, "sample_rate") = PyInt(0)
  /\ result.seconds = 0
  /\ result.text = <<ErrorPrefix, "division by zero">>

\* C2: for an existing path the backends are tried in the order torchaudio,
\* librosa, soundfile; a backend is attempted only after every earlier one
\* that is available was attempted and failed; the first success gives the
\* result and ends the cascade; the error result comes only after every
\* attempted backend failed.
C2_CascadeOrder ==
  (PathCall /\ call.arg.s = FileName /\ fs.exists) =>
    LET att == result.attempts
        n == Len(att)
    IN /\ \A i \in 1..n : \A j \in 1..n :
            i < j => BackendIndex(att[i][1]) < BackendIndex(att[j][1])
       /\ \A i \in 1..n : \A k \in 1..(BackendIndex(att[i][1]) - 1) :
            Backends[k] \in Avail =>
              \E j \in 1..(i - 1) : att[j] = <<Backends[k], FALSE>>
       /\ \A i \in 1..n : att[i][2] => i = n
       /\ \A i \in 1..n : att[i][2] <=> att[i][1] \in fs.decodable
       /\ IF n > 0 /\ att[n][2]
            THEN /\ result.seconds = fs.clip.frames \div fs.clip.rate
                 /\ IsDuration(result)
                 /\ result.route = <<att[n][1]>>
            ELSE /\ IsError(result)
                 /\ {att[i][1] : i \in 1..n} = Avail

\* torchaudio fails, librosa succeeds, soundfile (available, and able to
\* decode the file) is not attempted.
C2_Witness ==
  /\ PathCall
  /\ sf
  /\ "soundfile" \in fs.decodable
  /\ result.attempts = <<<<"torchaudio", FALSE>>, <<"librosa", TRUE>>>>
  /\ result.seconds = MaxLen

C4_MissingFile ==
  (PathCall /\ ~(call.arg.s = FileName /\ fs.exists)) =>
    /\ IsError(result)
    /\ Contains(result.text, call.arg.s)
    /\ result.attempts = <<>>

C4_Witness ==
  /\ PathCall
  /\ call.arg.s = "b.wav"
  /\ fs.exists
  /\ result.text = <<ErrorPrefix, "file not found: ", "b.wav">>

\* floor(n / r) for r # 0
FloorDiv(n, r) == IF r > 0 THEN n \div r ELSE (-n) \div (-r)
DirectPairCall == AudioCall /\ IsDirectPair(call.arg)
DirectLen == LastAxis(Get(call.arg, "samples"))
DirectRate == Get(call.arg, "sample_rate").v

\* C5 as stated: for every n >= 0 and every sample rate r the direct pair
\* gives seconds = floor(n / r) with the matching text.
C5_Original ==
  DirectPairCall =>
    /\ DirectRate # 0
    /\ result.seconds = FloorDiv(DirectLen, DirectRate)
    /\ result.text = <<ToString(FloorDiv(DirectLen, DirectRate)),
                       SecondsSuffix>>

\* C5 amended: for every n >= 0 (the empty buffer included, which gives 0
\* seconds and no error) and every sample rate r > 0 the direct pair gives
\* seconds = floor(n / r) with the matching text.
C5_DirectPair ==
  (DirectPairCall /\ DirectRate > 0) =>
    /\ result.seconds = DirectLen \div DirectRate
    /\ result.text = <<ToString(DirectLen \div DirectRate), SecondsSuffix>>
    /\ DirectLen = 0 => result.seconds = 0 /\ ~IsError(result)

\* An odd number of samples at rate 2 (truncation shows), and an empty one.
C5_Witness ==
  /\ DirectPairCall
  /\ DirectLen = 1
  /\ DirectRate = 2
  /\ result.seconds = 0
  /\ result.text = <<"0", SecondsSuffix>>

\* What the handler gives when called on the value under the audio key.
OnNested == GetAudioDurationFromAudio_get_duration(fs, Avail, librosa,
                                                   Get(call.arg, "audio"))

\* C6 as stated: a mapping with an audio key gives what the handler gives
\* on the value under that key.
C6_Original ==
  (AudioCall /\ IsDict(call.arg) /\ Has(call.arg, "audio")) =>
    SameTuple(result, OnNested)

\* C6 amended: a mapping with an audio key that does not also hold the
\* direct pair (a samples buffer and a sample_rate) gives what the handler
\* gives on the value under the audio key, errors included.
C6_NestedAudio ==
  (AudioCall /\ IsDict(call.arg) /\ Has(call.arg, "audio")
     /\ ~IsDirectPair(call.arg)) =>
    SameTuple(result, OnNested)

\* {audio: {samples, sample_rate}} resolved through the nested value.
C6_Witness ==
  /\ AudioCall
  /\ call.arg = PyDict(<<<<"audio",
                   PyDict(<<<<"samples", Tensor(<<MaxLen>>)>>,
                            <<"sample_rate", PyInt(MaxRate)>>>>)>>>>)
  /\ result.route = <<"audio", "direct">>
  /\ result.seconds = MaxLen \div MaxRate

\* C7: {filename: p} gives what GetAudioDuration.get_duration(p) gives,
\* whether p exists or not and whatever the cascade does; other entries
\* beside it change nothing as long as no earlier step applies.
C7_Filename ==
  (AudioCall /\ IsDict(call.arg) /\ ~IsDirectPair(call.arg)
     /\ ~Has(call.arg, "audio") /\ Has(call.arg, "filename")
     /\ Get(call.arg, "filename").kind = "str") =>
    SameTuple(result,
              GetAudioDuration_get_duration(fs, Avail,
                                            Get(call.arg, "filename").s))

\* {filename: "a.wav"} on a file of zero whole seconds that only soundfile
\* decodes.
C7_Witness ==
  /\ AudioCall
  /\ call.arg = PyDict(<<<<"filename", PyStr(FileName)>>>>)
  /\ result.attempts = <<<<"torchaudio", FALSE>>, <<"librosa", FALSE>>,
                         <<"soundfile", TRUE>>>>
  /\ result.text = <<"0", SecondsSuffix>>

KnownKeys ==
  {"samples", "sample_rate", "audio", "filename", "samplerate", "rate", "sr",
   "audio_data", "waveform", "data"}
\* An opaque object, or a mapping with no known key whose values are neither
\* mappings nor tuples nor arrays.
Unrecognized(a) ==
  \/ a.kind = "object"
  \/ /\ a.kind = "dict"
     /\ \A i \in 1..Len(a.items) :
          /\ a.items[i][1] \notin KnownKeys
          /\ a.items[i][2].kind \notin {"dict", "tuple", "Tensor", "ndarray"}

\* C8: an input of unrecognized shape gives (0, error text), the text names
\* the input's type and, for a mapping, each of its keys; with librosa
\* available and without.
C8_Unrecognized ==
  (AudioCall /\ Unrecognized(call.arg)) =>
    /\ IsError(result)
    /\ Contains(result.text, IF call.arg.kind = "dict"
                               THEN "<class 'dict'>"
                               ELSE "<class 'object'>")
    /\ call.arg.kind = "dict" =>
         \A i \in 1..Len(call.arg.items) :
           Contains(result.text, call.arg.items[i][1])

\* A mapping of two unknown keys, librosa available: the librosa block's
\* ValueError is logged and the final one is returned.
C8_Witness ==
  /\ AudioCall
  /\ librosa
  /\ call.arg = PyDict(<<<<"meta", Opaque>>, <<"extra", Opaque>>>>)
  /\ result.text = <<ErrorPrefix, "cannot parse audio format: ",
                     "<class 'dict'>", ", content: ", "meta", "extra">>

\* C9 as stated: no result computed by the direct pair, the key-name scan
\* or the 2-tuple scan is returned with seconds <= 0.
C9_Original ==
  (AudioCall /\ result.route # <<>>
     /\ result.route[Len(result.route)] \in
          {"direct", "key_scan", "tuple_scan"}) =>
    result.seconds > 0

\* C9 amended: only the nested-mapping scan treats seconds <= 0 as not
\* resolved, so a result that came through it has seconds > 0 and is no
\* error; the direct pair returns what it computes for any rate but 0, zero
\* seconds included.
C9_NestedOnly ==
  AudioCall =>
    /\ (\E i \in 1..Len(result.route) : result.route[i] = "nested") =>
         result.seconds > 0 /\ IsDuration(result)
    /\ (IsDirectPair(call.arg) /\ DirectRate # 0) =>
         /\ result.route = <<"direct">>
         /\ result.seconds * DirectRate <= DirectLen
         /\ IsDuration(result)

\* The first nested mapping resolves to 0 seconds through the librosa
\* fallback and is passed over; the second gives the file's duration.
C9_Witness ==
  /\ AudioCall
  /\ call.arg = PyDict(<<<<"meta", PyDict(<<<<"data", Tensor(<<MaxLen>>)>>>>)>>,
                         <<"extra",
                           PyDict(<<<<"filename", PyStr(FileName)>>>>)>>>>)
  /\ librosa
  /\ result.route[1] = "nested"
  /\ result.route[2] = "filename"
  /\ result.seconds = MaxLen

\* A mapping the direct pair, the audio key and the filename leave alone.
Unresolved(a) ==
  /\ IsDict(a)
  /\ ~IsDirectPair(a)
  /\ ~Has(a, "audio")
  /\ ~(Has(a, "filename") /\ Get(a, "filename").kind = "str")
HoldsBuffer(a, k) == Has(a, k) /\ Get(a, k).kind \in {"Tensor", "ndarray"}
FirstKey(a, keys) ==
  keys[CHOOSE i \in 1..Len(keys) :
         Has(a, keys[i]) /\ \A j \in 1..(i - 1) : ~Has(a, keys[j])]
FirstBufferKey(a, keys) ==
  keys[CHOOSE i \in 1..Len(keys) :
         HoldsBuffer(a, keys[i])
           /\ \A j \in 1..(i - 1) : ~HoldsBuffer(a, keys[j])]

ClaimRateKeys == {"samplerate", "rate", "sr", "sample_rate"}
ClaimDataKeys == {"data", "samples", "audio", "waveform"}
\* C10 as stated: for every rate key and every data key of the lists, a
\* mapping holding both (the data a buffer) gives floor(len / rate) of that
\* pair.  Read in the claim's favour: the rate is positive, and the pair is
\* the only rate key and the only buffer the mapping holds.
C10_Original ==
  (AudioCall /\ Unresolved(call.arg)) =>
    \A rk \in ClaimRateKeys : \A dk \in ClaimDataKeys :
      (/\ Has(call.arg, rk)
       /\ Get(call.arg, rk).v > 0
       /\ HoldsBuffer(call.arg, dk)
       /\ \A k \in ClaimRateKeys \ {rk} : ~Has(call.arg, k)
       /\ \A i \in 1..Len(call.arg.items) :
            call.arg.items[i][2].kind \in {"Tensor", "ndarray"} =>
              call.arg.items[i][1] = dk) =>
        /\ result.seconds =
             FloorDiv(LastAxis(Get(call.arg, dk)), Get(call.arg, rk).v)
        /\ IsDuration(result)

ScanRateKeys == <<"samplerate", "rate", "sr">>
ScanDataKeys == <<"data", "samples", "waveform">>
\* C10 amended: with a rate key among samplerate, rate, sr and a buffer
\* under data, samples or waveform, the first such rate key (when positive)
\* and the first such data key give seconds = floor(len / rate); the rate
\* key sample_rate is paired by the scan only with a buffer under
\* audio_data or waveform; a mapping with sample_rate and a buffer under
\* data alone is not resolved by the scan, and with no nested value and no
\* librosa it gives the error result.
C10_KeyScan ==
  (AudioCall /\ Unresolved(call.arg)) =>
    LET a == call.arg
        scanrate == \E i \in 1..3 : Has(a, ScanRateKeys[i])
        scandata == \E i \in 1..3 : HoldsBuffer(a, ScanDataKeys[i])
    IN /\ (scanrate /\ scandata
             /\ Get(a, FirstKey(a, ScanRateKeys)).v > 0) =>
            /\ result.seconds =
                 LastAxis(Get(a, FirstBufferKey(a, ScanDataKeys)))
                   \div Get(a, FirstKey(a, ScanRateKeys)).v
            /\ IsDuration(result)
            /\ result.route = <<"key_scan">>
       /\ (~scanrate /\ Has(a, "sample_rate") /\ Get(a, "sample_rate").v > 0
             /\ HoldsBuffer(a, "waveform")
             /\ ~HoldsBuffer(a, "audio_data")) =>
            /\ result.seconds =
                 LastAxis(Get(a, "waveform")) \div Get(a, "sample_rate").v
            /\ IsDuration(result)
            /\ result.route = <<"key_scan">>
       /\ (~scanrate /\ ~HoldsBuffer(a, "waveform")
             /\ ~HoldsBuffer(a, "audio_data")) =>
            /\ result.route # <<"key_scan">>
            /\ (/\ ~librosa
                /\ \A i \in 1..Len(a.items) :
                     a.items[i][2].kind \notin {"dict", "tuple"}) =>
                 IsError(result)

\* Two buffers, under samples and under data: the one under data decides.
C10_Witness ==
  /\ AudioCall
  /\ call.arg = PyDict(<<<<"samples", Tensor(<<0>>)>>,
                         <<"data", Tensor(<<MaxLen>>)>>,
                         <<"sr", PyInt(1)>>>>)
  /\ result.route = <<"key_scan">>
  /\ result.seconds = MaxLen

====
